---- MODULE Spec2Model ----
(***************************************************************************)
(* gpm (go Projects manager): model of main.go.                            *)
(*                                                                         *)
(* A Go string that holds a path is a sequence of tokens: the separator    *)
(* "/" or a name (a run of non-separator characters).  The file system is  *)
(* a function from the paths that exist to their entries.  filepath.Walk   *)
(* is modelled by an explicit stack of directory frames; visit, the        *)
(* classifier functions and the Projects catalog are operators translated  *)
(* from the source.                                                        *)
(***************************************************************************)
EXTENDS Integers, Sequences, FiniteSets

VARIABLES gopath, fs, pc, panic, stack, visited, allProjects, stdout

vars == <<gopath, fs, pc, panic, stack, visited, allProjects, stdout>>

\* ---------------------------------------------------------------- bounds
\* Number of entries below the workspace root in the enumerated file trees.
MaxEntries == 3
\* Number of AddRepo calls in the catalog-API specification.
MaxRepos == 3

\* F(x), with x evaluated once and F applied to its value.
WithValue(F(_), x) == CHOOSE r \in {F(v) : v \in {x}} : TRUE

\* ------------------------------------------------------------- strings
Separator == "/"

\* len(s) for the names used in the model.
StrLen(s) ==
    CASE s = "" -> 0
      [] s \in {"a", "b", "."} -> 1
      [] s = "ws" -> 2
      [] s \in {"src", "bob", "lib"} -> 3
      [] s = ".git" -> 4
      [] s \in {"alice", "proj1", "proj2"} -> 5
      [] s = "vendor" -> 6
      [] s \in {"github.com", "gitlab.com"} -> 10

\* Byte-wise order of the names (readDirNames sorts the names it returns).
NameOrder ==
    <<".git", "a", "alice", "b", "bob", "github.com", "gitlab.com", "lib",
      "proj1", "proj2", "src", "vendor", "ws">>

NameRank(s) == CHOOSE i \in 1..Len(NameOrder) : NameOrder[i] = s

\* The names of S in ascending order.
SortNames(S) ==
    [i \in 1..Cardinality(S) |->
        CHOOSE x \in S :
            Cardinality({y \in S : NameRank(y) < NameRank(x)}) = i - 1]

\* strings.Split(path, sep): the segments between the separators, one more
\* than there are separators.  A segment is empty or one name.
Split(s) ==
    [k \in 1..(Cardinality({i \in 1..Len(s) : s[i] = Separator}) + 1) |->
        IF \E i \in 1..Len(s) :
              /\ s[i] # Separator
              /\ Cardinality({j \in 1..i : s[j] = Separator}) = k - 1
        THEN s[CHOOSE i \in 1..Len(s) :
                  /\ s[i] # Separator
                  /\ Cardinality({j \in 1..i : s[j] = Separator}) = k - 1]
        ELSE ""]

\* The segments joined by the separator.
JoinSegs(segs) ==
    [i \in 1..(2 * Len(segs) - 1) |->
        IF i % 2 = 1 THEN segs[(i + 1) \div 2] ELSE Separator]

KeptSegment(x) == x \notin {"", "."}

\* path.Clean, for a path without ".." elements: the empty and the "."
\* segments go, a rooted path stays rooted, the empty path becomes ".".
CleanSegs(rooted, segs) ==
    IF rooted THEN <<Separator>> \o JoinSegs(segs)
    ELSE IF segs = <<>> THEN <<".">>
    ELSE JoinSegs(segs)

Clean(s) ==
    WithValue(LAMBDA segs : CleanSegs(s # <<>> /\ s[1] = Separator, segs),
              SelectSeq(Split(s), KeptSegment))

\* path.Join(a, b) and filepath.Join(a, b): empty elements are ignored, the
\* rest are joined by the separator and cleaned.
Join(a, b) ==
    IF a = <<>> /\ b = <<>> THEN <<>>
    ELSE WithValue(Clean, IF a = <<>> THEN b
                          ELSE IF b = <<>> THEN a
                          ELSE a \o <<Separator>> \o b)

\* The directory a path's last element lives in.
Dir(p) ==
    IF Len(p) >= 3 THEN SubSeq(p, 1, Len(p) - 2)
    ELSE IF Len(p) = 2 THEN <<Separator>>
    ELSE <<".">>

Base(p) == p[Len(p)]

\* ---------------------------------------------------------- file system
\* fs maps each existing path to its entry.  kind is "dir", "file" or
\* "symlink"; a symlink here is a symbolic link whose target is a directory
\* outside the tree that has a .git directory.  A directory has a read
\* permission (its names can be listed) and a search permission (the paths
\* beneath it can be resolved).
RootOf(g) == Join(g, <<"src">>)

\* path.Join(gopath, "src") of main.
Root == RootOf(gopath)

Entry(kind, read, search) == [kind |-> kind, read |-> read, search |-> search]

\* The paths that lead to a path at or below the root, itself included,
\* the root being the shortest.
Chain(path) ==
    {SubSeq(path, 1, k) : k \in {j \in Len(Root)..Len(path) : path[j] # Separator}}

\* The error, "" for none, of the step from the directory of q to q, the
\* directory being resolved.
StepErr(q) ==
    IF Dir(q) \notin DOMAIN fs THEN "ENOENT"   \* inside a linked repository
    ELSE CASE fs[Dir(q)].kind = "file" -> "ENOTDIR"
           [] fs[Dir(q)].kind = "symlink" ->
                IF Base(q) = ".git" THEN "" ELSE "ENOENT"
           [] OTHER ->
                IF ~fs[Dir(q)].search THEN "EACCES"
                ELSE IF q \in DOMAIN fs THEN "" ELSE "ENOENT"

\* The errors of the steps of a chain, by the length of the path stepped to.
StepErrs(chain) == {<<Len(q), StepErr(q)>> : q \in chain}

\* The error of the first step that fails, "" if none does.
FirstErr(errs) ==
    IF \A e \in errs : e[2] = "" THEN ""
    ELSE (CHOOSE e \in errs :
             e[2] # "" /\ \A f \in errs : f[1] < e[1] => f[2] = "")[2]

\* The error, "" for none, of resolving a path (what stat and lstat share).
StatErr(path) == WithValue(FirstErr, StepErrs(Chain(path)))

\* os.Stat: follows symbolic links.
StatInfo(path, e) ==
    [err |-> e,
     isDir |-> e = "" /\ (path \in DOMAIN fs => fs[path].kind \in {"dir", "symlink"})]

Stat(path) == WithValue(LAMBDA e : StatInfo(path, e), StatErr(path))

\* os.Lstat: does not follow a symbolic link.
LstatInfo(path, e) ==
    [err |-> e, isDir |-> e = "" /\ path \in DOMAIN fs /\ fs[path].kind = "dir"]

Lstat(path) == WithValue(LAMBDA e : LstatInfo(path, e), StatErr(path))

\* os.IsNotExist(err)
IsNotExist(err) == err = "ENOENT"

Children(path) == {q \in DOMAIN fs : Dir(q) = path /\ q # path}

\* filepath.readDirNames: the sorted names of a directory, or an error.
readDirNames(path) ==
    IF fs[path].read
    THEN [err |-> "", names |-> SortNames({Base(q) : q \in Children(path)})]
    ELSE [err |-> "EACCES", names |-> <<>>]

\* ------------------------------------------------------------- catalog
EmptyMap == [k \in {} |-> TRUE]

\* m[k] of a Go map[K]bool: the zero value false for an absent key.
MapGet(m, k) == IF k \in DOMAIN m THEN m[k] ELSE FALSE

MapSet(m, k, v) == [x \in DOMAIN m \cup {k} |-> IF x = k THEN v ELSE m[x]]

newSource(source) == [source |-> source]

newSourcesList == [sources |-> EmptyMap, maxLength |-> 0]

\* Mutant: every call stores an entry of its own, as a map keyed by the
\* pointer newSource returns would.
addSourceByPointer(s, source) ==
    [sources   |-> MapSet(s.sources,
                          [source |-> source.source,
                           ptr    |-> Cardinality(DOMAIN s.sources)], TRUE),
     maxLength |-> IF StrLen(source.source) > s.maxLength
                   THEN StrLen(source.source) ELSE s.maxLength]

addSource(s, source) ==
    [sources   |-> IF ~MapGet(s.sources, source)
                   THEN MapSet(s.sources, source, TRUE) ELSE s.sources,
     maxLength |-> IF StrLen(source.source) > s.maxLength
                   THEN StrLen(source.source) ELSE s.maxLength]

newOwner(owner, source) == [owner |-> owner, source |-> source]

newOwnersList == [owners |-> EmptyMap, maxLength |-> 0]

\* Mutant: the owner index keyed by the owner name alone.
addOwnerByName(o, owner) ==
    [owners    |-> IF \A k \in DOMAIN o.owners : k.owner # owner.owner
                   THEN MapSet(o.owners, owner, TRUE) ELSE o.owners,
     maxLength |-> IF StrLen(owner.owner) > o.maxLength
                   THEN StrLen(owner.owner) ELSE o.maxLength]

addOwner(o, owner) ==
    [owners    |-> IF ~MapGet(o.owners, owner)
                   THEN MapSet(o.owners, owner, TRUE) ELSE o.owners,
     maxLength |-> IF StrLen(owner.owner) > o.maxLength
                   THEN StrLen(owner.owner) ELSE o.maxLength]

goRepo(source, owner, repo) == [source |-> source, owner |-> owner, repo |-> repo]

NewProjects == [sources |-> newSourcesList, owners |-> newOwnersList, repos |-> <<>>]

\* Mutant: the new repository is put in front of the stored ones.
AddRepoPrepend(p, repo) ==
    [repos   |-> <<repo>> \o p.repos,
     sources |-> addSource(p.sources, newSource(repo.source)),
     owners  |-> addOwner(p.owners, newOwner(repo.owner, repo.source))]

AddRepo(p, repo) ==
    [repos   |-> Append(p.repos, repo),
     sources |-> addSource(p.sources, newSource(repo.source)),
     owners  |-> addOwner(p.owners, newOwner(repo.owner, repo.source))]

\* The orders in which a range loop may go through the keys of a map.
KeyOrders(m) ==
    {f \in [1..Cardinality(DOMAIN m) -> DOMAIN m] :
        \A i, j \in DOMAIN f : i # j => f[i] # f[j]}

\* Sources(): the slices the call may return (map iteration order is not fixed).
Sources(p) ==
    {[i \in DOMAIN f |-> f[i].source] : f \in KeyOrders(p.sources.sources)}

\* Owners(): the slices the call may return.
Owners(p) ==
    {[i \in DOMAIN f |-> f[i].owner] : f \in KeyOrders(p.owners.owners)}

\* ---------------------------------------------------------- classifier
\* isDir: "true", "false", or "panic": fileInfo is nil when os.Stat fails, a
\* failure that is no not-exist error is not returned on, and
\* fileInfo.IsDir() then dereferences nil.
IsDirOf(st) ==
    IF IsNotExist(st.err) THEN "false"
    ELSE IF st.err # "" THEN "panic"
    ELSE IF st.isDir THEN "true" ELSE "false"

isDir(path) == WithValue(IsDirOf, Stat(path))

isGitRoot(dir) == WithValue(isDir, Join(dir, <<".git">>))

\* isDir(path) && isGitRoot(path): the right side is evaluated when the left
\* is true.
isGogoRepo(path) ==
    WithValue(LAMBDA d : IF d = "true" THEN isGitRoot(path) ELSE d, isDir(path))

\* Mutant: the fields are taken from the first three segments.
parsegoRepoFirst(p, path) ==
    WithValue(LAMBDA parts :
                 IF Len(parts) < 3
                 THEN [panic |-> "index out of range", projects |-> p]
                 ELSE [panic |-> "",
                       projects |-> AddRepo(p, goRepo(parts[1], parts[2], parts[3]))],
              Split(path))

\* Mutant: a path needs a segment before the three that are read.
parsegoRepoFour(p, path) ==
    WithValue(LAMBDA parts :
                 IF Len(parts) < 4
                 THEN [panic |-> "index out of range", projects |-> p]
                 ELSE [panic |-> "",
                       projects |-> AddRepo(p, goRepo(parts[Len(parts)],
                                                      parts[Len(parts) - 1],
                                                      parts[Len(parts) - 2]))],
              Split(path))

\* parsegoRepo: with n = len(parts), parts[n-1], parts[n-2], parts[n-3] of
\* the Go slice are parts[n], parts[n-1], parts[n-2] here; an index below the
\* slice panics before AddRepo is called.
parsegoRepo(p, path) ==
    WithValue(LAMBDA parts :
                 IF Len(parts) < 3
                 THEN [panic |-> "index out of range", projects |-> p]
                 ELSE [panic |-> "",
                       projects |-> AddRepo(p, goRepo(parts[Len(parts)],
                                                      parts[Len(parts) - 1],
                                                      parts[Len(parts) - 2]))],
              Split(path))

\* What visit returns after parsegoRepo.
Matched(r, ret) == [ret |-> ret, panic |-> r.panic, projects |-> r.projects]

\* Mutant: a match does not stop the descent.
visitNoSkip(p, path) ==
    WithValue(LAMBDA g :
                 IF g = "panic"
                 THEN [ret |-> "nil", panic |-> "nil pointer dereference",
                       projects |-> p]
                 ELSE IF g = "true"
                 THEN WithValue(LAMBDA r : Matched(r, "nil"), parsegoRepo(p, path))
                 ELSE [ret |-> "nil", panic |-> "", projects |-> p],
              isGogoRepo(path))

\* visit: the WalkFunc; its FileInfo and error arguments are not read.
visit(p, path) ==
    WithValue(LAMBDA g :
                 IF g = "panic"
                 THEN [ret |-> "nil", panic |-> "nil pointer dereference",
                       projects |-> p]
                 ELSE IF g = "true"
                 THEN WithValue(LAMBDA r : Matched(r, "SkipDir"), parsegoRepo(p, path))
                 ELSE [ret |-> "nil", panic |-> "", projects |-> p],
              isGogoRepo(path))

\* -------------------------------------------------------------- walker
Frame(path, names) == [path |-> path, names |-> names]

\* filepath.walk(path, info, walkFn) up to its loop over the names: the
\* value it returns at once ("nil" or "SkipDir"), or "descend" with the
\* frame of the loop.  v is what the walk function did, rd what
\* readDirNames returned.
Walked(path, info, rd, v) ==
    [ret      |-> IF ~info.isDir THEN v.ret
                  ELSE IF rd.err # "" \/ v.ret # "nil" THEN v.ret
                  ELSE "descend",
     panic    |-> v.panic,
     projects |-> v.projects,
     frame    |-> Frame(path, rd.names)]

walk(p, path, info) ==
    WithValue(LAMBDA v :
                 WithValue(LAMBDA rd : Walked(path, info, rd, v),
                           IF info.isDir THEN readDirNames(path)
                           ELSE [err |-> "", names |-> <<>>]),
              visit(p, path))

Top == stack[Len(stack)]

Pop == SubSeq(stack, 1, Len(stack) - 1)

\* The stack with the first name of the top frame consumed.
Advance == [stack EXCEPT ![Len(stack)].names = Tail(@)]

\* What a step leaves behind: the position, the panic, the stack and the
\* catalog.
Outcome(pos, reason, stk, projects) ==
    [pc |-> pos, panic |-> reason, stack |-> stk, projects |-> projects]

\* main: an empty GOPATH returns at once.
Main ==
    /\ pc = "main"
    /\ pc' = IF gopath = <<>> THEN "exit" ELSE "Walk"
    /\ UNCHANGED <<gopath, fs, panic, stack, visited, allProjects, stdout>>

\* filepath.Walk(root, visit): Lstat of the root, then the walk function on
\* an error or walk on the root.
RootVisited(v) ==
    IF v.panic # "" THEN Outcome("crashed", v.panic, <<>>, v.projects)
    ELSE Outcome("print", "", <<>>, v.projects)

RootWalked(w) ==
    IF w.panic # "" THEN Outcome("crashed", w.panic, <<>>, w.projects)
    ELSE IF w.ret = "descend" THEN Outcome("walking", "", <<w.frame>>, w.projects)
    ELSE Outcome("print", "", <<>>, w.projects)

WalkRoot(p, root) ==
    WithValue(LAMBDA info :
                 IF info.err # "" THEN WithValue(RootVisited, visit(p, root))
                 ELSE WithValue(RootWalked, walk(p, root, info)),
              Lstat(root))

Walk ==
    /\ pc = "Walk"
    /\ \E root \in {Root} :
          /\ \E o \in {WalkRoot(allProjects, root)} :
                /\ pc' = o.pc
                /\ panic' = o.panic
                /\ stack' = o.stack
                /\ allProjects' = o.projects
          /\ visited' = Append(visited, root)
    /\ UNCHANGED <<gopath, fs, stdout>>

\* One turn of the loop of filepath.walk over the names of a directory:
\* Lstat of the name, then the walk function on an error or walk on it.  A
\* SkipDir that walk returns for a name that is no directory ends the loop:
\* the caller goes on with its own next name.
NameVisited(v, stk) ==
    IF v.panic # "" THEN Outcome("crashed", v.panic, stk, v.projects)
    ELSE Outcome("walking", "", Advance, v.projects)

NameWalked(w, info, stk) ==
    IF w.panic # "" THEN Outcome("crashed", w.panic, stk, w.projects)
    ELSE IF w.ret = "descend"
    THEN Outcome("walking", "", Append(Advance, w.frame), w.projects)
    ELSE IF w.ret = "SkipDir" /\ ~info.isDir
    THEN Outcome(IF Len(stk) = 1 THEN "print" ELSE "walking", "", Pop, w.projects)
    ELSE Outcome("walking", "", Advance, w.projects)

WalkName(p, stk, filename) ==
    WithValue(LAMBDA info :
                 IF info.err # ""
                 THEN WithValue(LAMBDA v : NameVisited(v, stk), visit(p, filename))
                 ELSE WithValue(LAMBDA w : NameWalked(w, info, stk),
                                walk(p, filename, info)),
              Lstat(filename))

NextName == Join(Top.path, <<Head(Top.names)>>)

WalkEntry ==
    /\ pc = "walking"
    /\ Top.names # <<>>
    /\ \E filename \in {NextName} :
          /\ \E o \in {WalkName(allProjects, stack, filename)} :
                /\ pc' = o.pc
                /\ panic' = o.panic
                /\ stack' = o.stack
                /\ allProjects' = o.projects
          /\ visited' = Append(visited, filename)
    /\ UNCHANGED <<gopath, fs, stdout>>

\* filepath.walk returns nil after the last name of a directory.
WalkReturn ==
    /\ pc = "walking"
    /\ Top.names = <<>>
    /\ stack' = Pop
    /\ pc' = IF Len(stack) = 1 THEN "print" ELSE pc
    /\ UNCHANGED <<gopath, fs, panic, visited, allProjects, stdout>>

\* printResult: one line per repository, in the order of the slice.
printResult(p) ==
    [i \in 1..Len(p.repos) |->
        <<i - 1, p.repos[i].repo, p.repos[i].owner, p.repos[i].source>>]

PrintResult ==
    /\ pc = "print"
    /\ stdout' = printResult(allProjects)
    /\ pc' = "exit"
    /\ UNCHANGED <<gopath, fs, panic, stack, visited, allProjects>>

\* ------------------------------------------------------- initial states
\* The values of GOPATH: unset, ".", "/" and "/ws".
GoPaths == {<<>>, <<".">>, <<Separator>>, <<Separator, "ws">>}

EntryNames == {".git", "a", "b"}

\* The paths below the root, as sequences of names.
RelPaths == UNION {[1..k -> EntryNames] : k \in 1..MaxEntries}

Parent(rel) == SubSeq(rel, 1, Len(rel) - 1)

\* The trees of prev, and each with one more path whose parent it holds.
Extend(prev) ==
    prev \cup
    {x[1] \cup {x[2]} : x \in
        {y \in prev \X RelPaths :
            /\ y[2] \notin y[1]
            /\ Len(y[2]) = 1 \/ Parent(y[2]) \in y[1]}}

\* The sets of at most k paths below the root that hold the parent of each
\* of their paths.
RECURSIVE Trees(_)
Trees(k) ==
    IF k = 0 THEN {{}}
    ELSE UNION {Extend(prev) : prev \in {Trees(k - 1)}}

\* The path of the entry rel below the root: the names of rel joined to the
\* root, a separator before each.
AbsPath(root, rel) ==
    root \o [i \in 1..(2 * Len(rel)) |->
                IF i % 2 = 1 THEN Separator ELSE rel[i \div 2]]

\* The names that lead from the root to the path p below it.
RelPath(root, p) ==
    [i \in 1..((Len(p) - Len(root)) \div 2) |-> p[Len(root) + 2 * i]]

\* The kinds of the entries of a tree: an entry with an entry beneath it
\* is a directory.
KindsOf(t) ==
    {k \in [t -> {"dir", "file", "symlink"}] :
        \A c \in t : (\E d \in t : Len(d) > 1 /\ Parent(d) = c) => k[c] = "dir"}

\* The permission faults: a directory that cannot be listed, one that cannot
\* be searched, one that allows neither.
FaultModes == {<<FALSE, TRUE>>, <<TRUE, FALSE>>, <<FALSE, FALSE>>}

\* No fault, or a fault of one of the directories D.
FaultsOf(D) == UNION {[F -> FaultModes] : F \in {{}} \cup {{d} : d \in D}}

\* The file system with the directory of the root, the root and the tree t
\* beneath it, of kinds k and permission faults m (keyed by relative path,
\* <<>> for the root).
MakeFs(root, rootKind, t, k, m, parentSearch) ==
    [p \in {Dir(root)} \cup
           (IF rootKind = "none" THEN {}
            ELSE {root} \cup {AbsPath(root, r) : r \in t}) |->
        IF p = Dir(root) THEN Entry("dir", TRUE, parentSearch)
        ELSE IF p = root
        THEN Entry(rootKind, <<>> \notin DOMAIN m \/ m[<<>>][1],
                             <<>> \notin DOMAIN m \/ m[<<>>][2])
        ELSE Entry(k[RelPath(root, p)],
                   RelPath(root, p) \notin DOMAIN m \/ m[RelPath(root, p)][1],
                   RelPath(root, p) \notin DOMAIN m \/ m[RelPath(root, p)][2])]

\* The file system without a root.
NoRootFs(root) == MakeFs(root, "none", {}, <<>>, <<>>, TRUE)

\* The workspace of the end-to-end scenario: /ws/src with the repositories
\* github.com/alice/proj1, github.com/bob/proj2 and, inside proj1, vendor/lib.
ScenarioDirs ==
    {<<"github.com">>,
     <<"github.com", "alice">>,
     <<"github.com", "alice", "proj1">>,
     <<"github.com", "alice", "proj1", ".git">>,
     <<"github.com", "alice", "proj1", "vendor">>,
     <<"github.com", "alice", "proj1", "vendor", "lib">>,
     <<"github.com", "alice", "proj1", "vendor", "lib", ".git">>,
     <<"github.com", "bob">>,
     <<"github.com", "bob", "proj2">>,
     <<"github.com", "bob", "proj2", ".git">>}

ScenarioGoPath == <<Separator, "ws">>

ScenarioFs ==
    MakeFs(RootOf(ScenarioGoPath), "dir", ScenarioDirs,
           [c \in ScenarioDirs |-> "dir"], <<>>, TRUE)

\* The file systems enumerated for a GOPATH: a root that is absent, a file or
\* a link to a repository, below a directory that can be searched or not; a
\* root directory that cannot be reached; a root directory with a tree
\* beneath it, one directory at most with a permission fault; the scenario.
\* An unset GOPATH is not walked: one file system stands for all.
InitFs(root) ==
    IF gopath = <<>> THEN fs = NoRootFs(root)
    ELSE \/ \E rk \in {"none", "file", "symlink"}, ps \in BOOLEAN :
               fs = MakeFs(root, rk, {}, <<>>, <<>>, ps)
         \/ fs = MakeFs(root, "dir", {}, <<>>, <<>>, FALSE)
         \/ \E t \in Trees(MaxEntries) :
               \E k \in KindsOf(t) :
                  \E m \in FaultsOf({<<>>} \cup {c \in t : k[c] = "dir"}) :
                     fs = MakeFs(root, "dir", t, k, m, TRUE)
         \/ gopath = ScenarioGoPath /\ fs = ScenarioFs

Init ==
    /\ gopath \in GoPaths
    /\ \E root \in {RootOf(gopath)} : InitFs(root)
    /\ pc = "main"
    /\ panic = ""
    /\ stack = <<>>
    /\ visited = <<>>
    /\ allProjects = NewProjects
    /\ stdout = <<>>

Next == Main \/ Walk \/ WalkEntry \/ WalkReturn \/ PrintResult

Spec == Init /\ [][Next]_vars

\* ------------------------------------------------- the catalog, as an API
RepoValues ==
    {goRepo(s, o, r) : s \in {"github.com", "gitlab.com"},
                       o \in {"alice", "bob"}, r \in {"proj1", "proj2"}}

InitCatalog ==
    /\ gopath = <<>>
    /\ fs = NoRootFs(RootOf(<<>>))
    /\ pc = "api"
    /\ panic = ""
    /\ stack = <<>>
    /\ visited = <<>>
    /\ allProjects = NewProjects
    /\ stdout = <<>>

\* A call of AddRepo on the catalog.
CallAddRepo ==
    /\ pc = "api"
    /\ Len(allProjects.repos) < MaxRepos
    /\ \E r \in RepoValues : allProjects' = AddRepo(allProjects, r)
    /\ UNCHANGED <<gopath, fs, pc, panic, stack, visited, stdout>>

NextCatalog == CallAddRepo

SpecCatalog == InitCatalog /\ [][NextCatalog]_vars

\* ---------------------------------------------------------------- claims
\* q lies strictly beneath the directory d.
Below(q, d) ==
    /\ Len(q) > Len(d)
    /\ SubSeq(q, 1, Len(d)) = d
    /\ q[Len(d) + 1] = Separator

IsMatch(path) == isGogoRepo(path) = "true"

\* The entry d of the file system is a directory, or a link to one, with a
\* .git directory directly beneath it.
HasMarker(d) ==
    \/ fs[d].kind = "symlink"
    \/ /\ fs[d].kind = "dir"
       /\ \E g \in {d \o <<Separator, ".git">>} :
             g \in DOMAIN fs /\ fs[g].kind \in {"dir", "symlink"}

\* The repository roots of the file system at or below the root.
MarkerDirs ==
    UNION {{d \in DOMAIN fs : (d = root \/ Below(d, root)) /\ HasMarker(d)} :
              root \in {Root}}

\* The marker directories with no marker directory above them.
TopMarkerDirs ==
    UNION {{d \in markers : \A e \in markers : ~Below(d, e)} : markers \in {MarkerDirs}}

\* The visited paths that matched, in the order of the visits.
FoundPaths == SelectSeq(visited, IsMatch)

Repos == allProjects.repos

Range(f) == {f[i] : i \in DOMAIN f}

WalkFinished == gopath # <<>> /\ pc \in {"print", "exit"}

\* C1: nothing strictly beneath a repository root is ever visited, so no
\* repository is recorded for a marker directory nested beneath another.
C1_Prune ==
    \A markers \in {MarkerDirs} : \A found \in {FoundPaths} :
        /\ \A d \in markers : \A i \in 1..Len(visited) : ~Below(visited[i], d)
        /\ Len(Repos) <= Len(found)
        /\ \A i \in 1..Len(found) : \A d \in markers : ~Below(found[i], d)

\* A finished walk that matched a directory with a marker directory nested
\* beneath it.
C1_Witness ==
    /\ pc = "exit"
    /\ panic = ""
    /\ \E i \in 1..Len(visited) :
          /\ visited[i] \in MarkerDirs
          /\ \E e \in MarkerDirs : Below(e, visited[i])

\* Every directory of the file system can be listed and searched.
Accessible == \A q \in DOMAIN fs : fs[q].read /\ fs[q].search

\* C2: when the walk of a tree without access faults has finished, the
\* children of every visited directory without a marker were visited, and the
\* repository sequence holds exactly one entry for each marker directory that
\* has no marker directory above it.
C2_Claim ==
    (WalkFinished /\ Accessible) =>
        \A top \in {TopMarkerDirs} : \A found \in {FoundPaths} :
            /\ \A i \in 1..Len(visited) :
                  (Lstat(visited[i]).isDir /\ ~IsMatch(visited[i]))
                      => Children(visited[i]) \subseteq Range(visited)
            /\ \A d \in top :
                  Cardinality({i \in 1..Len(found) : found[i] = d}) = 1
            /\ Len(found) = Cardinality(top)
            /\ Len(Repos) = Cardinality(top)

\* C3: in the scenario the catalog ends with exactly the two repositories
\* proj1 and proj2, the source github.com and the owners alice and bob.
C3_Claim ==
    (gopath = ScenarioGoPath /\ fs = ScenarioFs /\ pc = "exit") =>
        /\ Len(Repos) = 2
        /\ {Repos[i].repo : i \in 1..Len(Repos)} = {"proj1", "proj2"}
        /\ \A r \in Range(Repos) : r.source = "github.com"
        /\ \A x \in Sources(allProjects) : Range(x) = {"github.com"}
        /\ \A x \in Owners(allProjects) : Range(x) = {"alice", "bob"}

\* The last three segments, as the record the claims expect of a path with
\* the segments parts.
LastThree(parts) ==
    [source |-> parts[Len(parts)],
     owner  |-> parts[Len(parts) - 1],
     repo   |-> parts[Len(parts) - 2]]

NoDuplicates(x) == \A i, j \in DOMAIN x : i # j => x[i] # x[j]

\* C5: neither Sources() nor Owners() ever holds the same string twice.
C5_Claim ==
    /\ \A x \in Sources(allProjects) : NoDuplicates(x)
    /\ \A x \in Owners(allProjects) : NoDuplicates(x)

\* A step that is a call of AddRepo: the catalog changes.
AddRepoStep == allProjects' # allProjects

\* C6: every AddRepo makes the repository sequence one longer, and an
\* AddRepo of a value the sequence already holds leaves the numbers of
\* entries that Sources() and Owners() return as they were.
C6_Idempotent ==
    [][AddRepoStep =>
          /\ Len(Repos') = Len(Repos) + 1
          /\ Repos'[Len(Repos')] \in Range(Repos) =>
                /\ \A x \in Sources(allProjects), y \in Sources(allProjects') :
                      Len(y) = Len(x)
                /\ \A x \in Owners(allProjects), y \in Owners(allProjects') :
                      Len(y) = Len(x)]_vars

\* A catalog to which one repository value was added twice.
C6_Witness == \E i, j \in 1..Len(Repos) : i < j /\ Repos[i] = Repos[j]

\* C7: the source of every stored repository is in the source index and its
\* (owner, source) pair in the owner index, which holds one entry for each
\* source an owner name occurs under.
C7_Indexed ==
    /\ \A r \in Range(Repos) :
          /\ MapGet(allProjects.sources.sources, [source |-> r.source])
          /\ MapGet(allProjects.owners.owners,
                    [owner |-> r.owner, source |-> r.source])
    /\ \A o \in {r.owner : r \in Range(Repos)} :
          Cardinality({k \in DOMAIN allProjects.owners.owners : k.owner = o})
              = Cardinality({r.source : r \in {x \in Range(Repos) : x.owner = o}})

\* A catalog with one owner name under two sources.
C7_Witness ==
    \E k, l \in DOMAIN allProjects.owners.owners :
        k.owner = l.owner /\ k.source # l.source

\* C8: a step changes the catalog only by putting one repository at the
\* end of the sequence, every stored repository and index entry staying as
\* it was; the sequence is in the order of discovery, and printResult prints
\* it in that order.
C8_AppendOnly ==
    /\ [][AddRepoStep =>
             /\ Len(Repos') = Len(Repos) + 1
             /\ SubSeq(Repos', 1, Len(Repos)) = Repos
             /\ \A k \in DOMAIN allProjects.sources.sources :
                   MapGet(allProjects'.sources.sources, k)
                       = allProjects.sources.sources[k]
             /\ \A k \in DOMAIN allProjects.owners.owners :
                   MapGet(allProjects'.owners.owners, k)
                       = allProjects.owners.owners[k]]_vars
    /\ [](\A found \in {FoundPaths} :
             /\ Len(Repos) <= Len(found)
             /\ \A i \in 1..Len(Repos) : Repos[i].source = Base(found[i]))
    /\ []((pc = "exit" /\ gopath # <<>>) =>
             /\ Len(stdout) = Len(Repos)
             /\ \A i \in 1..Len(Repos) :
                   stdout[i] = <<i - 1, Repos[i].repo, Repos[i].owner,
                                 Repos[i].source>>)

\* A finished walk that found two repositories.
C8_Witness == pc = "exit" /\ Len(Repos) >= 2 /\ Len(stdout) >= 2

\* C9: a probe that fails, whatever the failure, is no match and no crash.
C9_Claim ==
    /\ \A i \in 1..Len(visited) : isGogoRepo(visited[i]) \in {"true", "false"}
    /\ panic # "nil pointer dereference"

\* C10: a matched path makes parsegoRepo read out of range exactly when the
\* path as a whole has fewer than 3 segments; a matched path of 3 or more
\* segments is recorded, and one less than 3 levels beneath the root has a
\* segment of the root as its repo field.
C10_OutOfRange ==
    \A found \in {FoundPaths} :
        /\ \A i \in 1..Len(found) :
              \A parts \in {Split(found[i])} :
                 IF Len(parts) < 3
                 THEN /\ pc = "crashed"
                      /\ panic = "index out of range"
                      /\ i = Len(found)
                      /\ Len(Repos) = i - 1
                 ELSE /\ i <= Len(Repos)
                      /\ Repos[i] = LastThree(parts)
                      /\ Len(parts) - Len(Split(Root)) < 3 =>
                            Repos[i].repo = Split(Root)[Len(parts) - 2]
        /\ panic = "index out of range" =>
              /\ Len(found) > 0
              /\ Len(Split(found[Len(found)])) < 3

\* A finished walk that recorded the workspace root /ws/src itself: the repo
\* field is the empty segment before the leading separator.
C10_Witness ==
    /\ pc = "exit"
    /\ \E found \in {FoundPaths} :
          \E i \in 1..Len(Repos) :
             /\ found[i] = Root
             /\ Repos[i] = [source |-> "src", owner |-> "ws", repo |-> ""]

====
